---- MODULE Spec2Model ----
(***************************************************************************)
(* A model of the in-memory Unix filesystem simulator of src/unix.c.       *)
(*                                                                         *)
(* The heap is a finite array of blocks.  A Container lives in one block;  *)
(* a pointer is the index of a block, NULL is 0.  The name string of a     *)
(* container is a second allocation, owned by the container's block.       *)
(* Strings are sequences of byte codes, compared as strcmp compares them.  *)
(* stdout is the sequence of bytes the last call printed.                  *)
(***************************************************************************)
EXTENDS Integers, Sequences, FiniteSets, TLC

\* ------------------------------------------------------------------ bounds

\* Number of heap blocks that can hold a Container (Root included).
MaxNodes == 4

Nodes == 1..MaxNodes

\* ------------------------------------------------------- program constants

NULL == 0

U_ROOT == 0
U_FILE == 1
U_DIR == 2

\* "." , ".." and "/" as byte strings
CD == <<46>>
PARENT == <<46, 46>>
ROOT == <<47>>

\* '\n'
NL == <<10>>

\* The content of memory that was never written, or that has been handed
\* back to the allocator: no particular value.
Indet == -1

\* A block whose content is indeterminate; its name is a string of no byte
\* that an argument holds.
IndetBlock ==
  [name |-> <<Indet>>, parent |-> Indet, next |-> Indet, prev |-> Indet,
   type |-> Indet, sub_dir |-> Indet]

\* "Not enough memory for allocation. Terminating program.\n"
NO_MEMORY ==
  <<78, 111, 116, 32, 101, 110, 111, 117, 103, 104, 32, 109, 101, 109, 111,
    114, 121, 32, 102, 111, 114, 32, 97, 108, 108, 111, 99, 97, 116, 105,
    111, 110, 46, 32, 84, 101, 114, 109, 105, 110, 97, 116, 105, 110, 103,
    32, 112, 114, 111, 103, 114, 97, 109, 46, 10>>

\* ------------------------------------------------------------------ inputs

\* The arguments the calls are made with: "", ".", "..", "/", "a/", and the
\* plain names "a", "ab", "b".
PlainNames == { <<97>>, <<97, 98>>, <<98>> }

Args == { <<>>, CD, PARENT, ROOT, <<97, 47>> } \cup PlainNames

\* What malloc does in add_container_to_filesystem: both allocations
\* succeed, the container's fails, or the name's fails.
AllocOk == "ok"
AllocNodeFails == "node"
AllocNameFails == "name"

\* ------------------------------------------------------------------- state

VARIABLES
  mem,        \* the heap: block -> Container fields
  live,       \* blocks holding a Container that malloc returned and free has not taken back
  liveName,   \* blocks whose name string is allocated
  root,       \* filesystem->root
  curr_dir,   \* filesystem->curr_dir
  phase,      \* "live" after mkfs, "dead" after rmfs, "oom" after a failed allocation
  pc,         \* the caller: "ready" to make a call, or a call has "returned"
  op,         \* the last call: [fn, arg]
  ret,        \* its return value
  out,        \* the bytes it printed
  frees,      \* block -> number of free(container) calls the last call made on it
  nameFrees,  \* block -> number of free(name) calls the last call made on it
  bad_free    \* some free() so far was given a pointer that was not allocated

vars ==
  <<mem, live, liveName, root, curr_dir, phase, pc, op, ret, out, frees,
    nameFrees, bad_free>>

\* The part of the state the C functions read and write.
St ==
  [mem |-> mem, live |-> live, liveName |-> liveName, root |-> root,
   curr_dir |-> curr_dir, ret |-> ret, out |-> out, frees |-> frees,
   nameFrees |-> nameFrees, bad_free |-> bad_free]

NoFrees == [n \in Nodes |-> 0]

\* A call starts with nothing printed and nothing freed.
Enter(S) == [S EXCEPT !.out = <<>>, !.frees = NoFrees, !.nameFrees = NoFrees]

\* ------------------------------------------------------------ <string.h>

RECURSIVE strcmp_from(_, _, _)
strcmp_from(s, t, i) ==
  IF i > Len(s) /\ i > Len(t) THEN 0
  ELSE IF i > Len(s) THEN -1
  ELSE IF i > Len(t) THEN 1
  ELSE IF s[i] < t[i] THEN -1
  ELSE IF s[i] > t[i] THEN 1
  ELSE strcmp_from(s, t, i + 1)

\* The sign of strcmp(s, t).
strcmp(s, t) == strcmp_from(s, t, 1)

strlen(s) == Len(s)

\* strstr(s, t) != NULL
strstr(s, t) ==
  \E i \in 1..(Len(s) - Len(t) + 1) : SubSeq(s, i, i + Len(t) - 1) = t

\* ------------------------------------------------------- name validation

\* Mutant of invalid_arg: the search for '/' is left out.
invalid_arg_empty_only(arg) == strlen(arg) = 0

invalid_arg(arg) == strlen(arg) = 0 \/ strstr(arg, ROOT)

\* Mutant of non_error_arg: the comparison with PARENT is left out.
non_error_arg_without_parent(arg) ==
  strcmp(arg, CD) = 0 \/ strcmp(arg, ROOT) = 0

non_error_arg(arg) ==
  strcmp(arg, CD) = 0 \/ strcmp(arg, PARENT) = 0 \/ strcmp(arg, ROOT) = 0

\* ------------------------------------------------------------------ lookup

\* The loop of name_exists, from curr on.
RECURSIVE name_exists_loop(_, _, _, _)
name_exists_loop(m, curr, arg, should_assign) ==
  IF curr = NULL THEN [exists |-> 0, position |-> NULL]
  ELSE IF strcmp(m[curr].name, arg) = 0
    THEN [exists |-> 1, position |-> IF should_assign # 0 THEN curr ELSE NULL]
  ELSE name_exists_loop(m, m[curr].next, arg, should_assign)

\* Mutant of name_exists: an if where the while is, only the first child
\* is compared.
name_exists_first_only(S, arg, should_assign) ==
  LET c == S.curr_dir
      first == IF S.mem[c].type = U_ROOT THEN S.mem[c].next
               ELSE IF S.mem[c].type = U_DIR THEN S.mem[c].sub_dir
               ELSE c
  IN IF first # NULL /\ strcmp(S.mem[first].name, arg) = 0
       THEN [exists |-> 1, position |-> IF should_assign # 0 THEN first ELSE NULL]
       ELSE [exists |-> 0, position |-> NULL]

name_exists(S, arg, should_assign) ==
  LET c == S.curr_dir
      first == IF S.mem[c].type = U_ROOT THEN S.mem[c].next
               ELSE IF S.mem[c].type = U_DIR THEN S.mem[c].sub_dir
               ELSE c
  IN name_exists_loop(S.mem, first, arg, should_assign)

\* ---------------------------------------------------------------- creation

\* Mutant of find_place: the comparison is turned round.
RECURSIVE find_place_descending(_, _, _, _)
find_place_descending(m, prev, curr, arg) ==
  IF curr # NULL /\ (m[curr].type = U_ROOT \/ strcmp(m[curr].name, arg) > 0)
    THEN find_place_descending(m, curr, m[curr].next, arg)
    ELSE [prev |-> prev, curr |-> curr]

\* The loop of add_container_to_filesystem that finds the place of the new
\* container: it stops at the first sibling whose name is not below arg.
RECURSIVE find_place(_, _, _, _)
find_place(m, prev, curr, arg) ==
  IF curr # NULL /\ (m[curr].type = U_ROOT \/ strcmp(m[curr].name, arg) < 0)
    THEN find_place(m, curr, m[curr].next, arg)
    ELSE [prev |-> prev, curr |-> curr]

\* Mutant of init_container: parent is set to prev.
init_container_parent_prev(dir, curr, type, prev) ==
  [IndetBlock EXCEPT !.parent = prev, !.next = curr, !.type = type, !.prev = prev]

\* Lines 395-398: the fields of the fresh block that are set at once.
init_container(dir, curr, type, prev) ==
  [IndetBlock EXCEPT !.parent = dir, !.next = curr, !.type = type, !.prev = prev]

\* new_container is the block malloc returned; alloc says which malloc fails.
add_container_to_filesystem(S, arg, type, new_container, alloc) ==
  LET m == S.mem
      dir == S.curr_dir
      start == IF m[dir].type = U_DIR THEN m[dir].sub_dir ELSE dir
      place == find_place(m, dir, start, arg)
      prev == place.prev
      curr == place.curr
      m1 == [m EXCEPT ![new_container] = init_container(dir, curr, type, prev)]
      m2 == IF curr # NULL THEN [m1 EXCEPT ![curr].prev = new_container] ELSE m1
      m3 == IF type = U_DIR THEN [m2 EXCEPT ![new_container].sub_dir = NULL] ELSE m2
      m4 == [m3 EXCEPT ![new_container].name = arg]
      m5 == IF m4[dir].type = U_DIR /\ m4[dir].sub_dir = NULL
              THEN [m4 EXCEPT ![dir].sub_dir = new_container]
              ELSE IF prev = dir /\ m4[prev].type = U_DIR
                THEN [m4 EXCEPT ![prev].sub_dir = new_container]
                ELSE [m4 EXCEPT ![prev].next = new_container]
  IN IF alloc = AllocNodeFails
       THEN [S EXCEPT !.out = NO_MEMORY, !.ret = 0]
     ELSE IF alloc = AllocNameFails
       THEN \* free(new_container): the links written so far stay as they are
            [S EXCEPT !.mem = [m3 EXCEPT ![new_container] = IndetBlock],
                      !.frees[new_container] = @ + 1,
                      !.out = NO_MEMORY, !.ret = 0]
     ELSE [S EXCEPT !.mem = m5,
                    !.live = @ \cup {new_container},
                    !.liveName = @ \cup {new_container},
                    !.ret = 1]

touch(S0, arg, blk, alloc) ==
  LET S == Enter(S0)
      exists == name_exists(S, arg, 0).exists
  IN IF non_error_arg(arg) \/ exists # 0 THEN [S EXCEPT !.ret = 1]
     ELSE IF invalid_arg(arg) THEN [S EXCEPT !.ret = 0]
     ELSE add_container_to_filesystem(S, arg, U_FILE, blk, alloc)

\* Mutant of mkdir: the test of touch, an existing name is a success.
mkdir_like_touch(S0, arg, blk, alloc) ==
  LET S == Enter(S0)
      exists == name_exists(S, arg, 0).exists
  IN IF non_error_arg(arg) \/ exists # 0 THEN [S EXCEPT !.ret = 1]
     ELSE IF invalid_arg(arg) THEN [S EXCEPT !.ret = 0]
     ELSE add_container_to_filesystem(S, arg, U_DIR, blk, alloc)

mkdir(S0, arg, blk, alloc) ==
  LET S == Enter(S0)
      exists == name_exists(S, arg, 0).exists
  IN IF exists # 0 \/ non_error_arg(arg) THEN [S EXCEPT !.ret = 0]
     ELSE IF invalid_arg(arg) THEN [S EXCEPT !.ret = 0]
     ELSE add_container_to_filesystem(S, arg, U_DIR, blk, alloc)

\* root is the block malloc returned.  (A failed allocation ends the
\* process, lines 43-46 and 59-62: no state follows it.)
mkfs(S0, blk) ==
  LET S == Enter(S0)
  IN [S EXCEPT !.mem[blk] = [IndetBlock EXCEPT !.prev = NULL, !.parent = blk,
                                               !.type = U_ROOT, !.next = NULL,
                                               !.name = ROOT],
               !.live = @ \cup {blk},
               !.liveName = @ \cup {blk},
               !.root = blk,
               !.curr_dir = blk]

\* -------------------------------------------------------------- navigation

\* Mutant of cd: the test for a file is left out.
cd_into_file(S0, arg) ==
  LET S == Enter(S0)
      found == name_exists(S, arg, 1)
      position == found.position
  IN IF strcmp(arg, CD) = 0 \/ strlen(arg) = 0 THEN [S EXCEPT !.ret = 1]
     ELSE IF strcmp(arg, PARENT) = 0
       THEN IF S.mem[S.curr_dir].type # U_ROOT
              THEN [S EXCEPT !.curr_dir = S.mem[S.curr_dir].parent, !.ret = 1]
              ELSE [S EXCEPT !.ret = 1]
     ELSE IF strcmp(arg, ROOT) = 0 THEN [S EXCEPT !.curr_dir = S.root, !.ret = 1]
     ELSE IF found.exists = 0 /\ ~non_error_arg(arg) THEN [S EXCEPT !.ret = 0]
     ELSE [S EXCEPT !.curr_dir = position, !.ret = 1]

\* Mutant of cd: a name that is not found is a success, the cursor stays.
cd_missing_succeeds(S0, arg) ==
  LET S == Enter(S0)
      found == name_exists(S, arg, 1)
      position == found.position
  IN IF strcmp(arg, CD) = 0 \/ strlen(arg) = 0 THEN [S EXCEPT !.ret = 1]
     ELSE IF strcmp(arg, PARENT) = 0
       THEN IF S.mem[S.curr_dir].type # U_ROOT
              THEN [S EXCEPT !.curr_dir = S.mem[S.curr_dir].parent, !.ret = 1]
              ELSE [S EXCEPT !.ret = 1]
     ELSE IF strcmp(arg, ROOT) = 0 THEN [S EXCEPT !.curr_dir = S.root, !.ret = 1]
     ELSE IF found.exists = 0 /\ ~non_error_arg(arg) THEN [S EXCEPT !.ret = 1]
     ELSE IF position # NULL /\ S.mem[position].type = U_FILE
       THEN [S EXCEPT !.ret = 0]
     ELSE [S EXCEPT !.curr_dir = position, !.ret = 1]

\* Mutant of cd: ".." goes to Root, as "/" does.
cd_parent_is_root(S0, arg) ==
  LET S == Enter(S0)
      found == name_exists(S, arg, 1)
      position == found.position
  IN IF strcmp(arg, CD) = 0 \/ strlen(arg) = 0 THEN [S EXCEPT !.ret = 1]
     ELSE IF strcmp(arg, PARENT) = 0 \/ strcmp(arg, ROOT) = 0
       THEN [S EXCEPT !.curr_dir = S.root, !.ret = 1]
     ELSE IF found.exists = 0 /\ ~non_error_arg(arg) THEN [S EXCEPT !.ret = 0]
     ELSE IF position # NULL /\ S.mem[position].type = U_FILE
       THEN [S EXCEPT !.ret = 0]
     ELSE [S EXCEPT !.curr_dir = position, !.ret = 1]

cd(S0, arg) ==
  LET S == Enter(S0)
      found == name_exists(S, arg, 1)
      position == found.position
  IN IF strcmp(arg, CD) = 0 \/ strlen(arg) = 0 THEN [S EXCEPT !.ret = 1]
     ELSE IF strcmp(arg, PARENT) = 0
       THEN IF S.mem[S.curr_dir].type # U_ROOT
              THEN [S EXCEPT !.curr_dir = S.mem[S.curr_dir].parent, !.ret = 1]
              ELSE [S EXCEPT !.ret = 1]
     ELSE IF strcmp(arg, ROOT) = 0 THEN [S EXCEPT !.curr_dir = S.root, !.ret = 1]
     ELSE IF found.exists = 0 /\ ~non_error_arg(arg) THEN [S EXCEPT !.ret = 0]
     ELSE IF position # NULL /\ S.mem[position].type = U_FILE
       THEN [S EXCEPT !.ret = 0]
     ELSE [S EXCEPT !.curr_dir = position, !.ret = 1]

\* ----------------------------------------------------------------- listing

\* printf("%s/\n") for a directory, printf("%s\n") for anything else
print_element(m, curr) ==
  IF m[curr].type = U_DIR THEN m[curr].name \o ROOT \o NL
  ELSE m[curr].name \o NL

\* Mutant of print_loop: the print after the loop is left out, the last
\* element is not printed.
RECURSIVE print_loop_without_last(_, _)
print_loop_without_last(m, curr) ==
  IF m[curr].next # NULL
    THEN print_element(m, curr) \o print_loop_without_last(m, m[curr].next)
    ELSE <<>>

\* The loop of print_elements and the print of the last element after it.
RECURSIVE print_loop(_, _)
print_loop(m, curr) ==
  IF m[curr].next # NULL
    THEN print_element(m, curr) \o print_loop(m, m[curr].next)
    ELSE print_element(m, curr)

print_elements(m, container, is_current_dir) ==
  LET curr == IF container # NULL /\ (m[container].type = U_ROOT \/ is_current_dir # 0)
                THEN IF m[container].type = U_ROOT THEN m[container].next
                     ELSE m[container].sub_dir
                ELSE container
  IN IF container = NULL THEN <<>>
     ELSE IF m[container].type = U_ROOT /\ m[container].next = NULL THEN <<>>
     ELSE IF curr = NULL THEN <<>>
     ELSE print_loop(m, curr)

\* Mutant of ls: for a Directory found by name, print_elements is given the
\* directory where its sub_dir is meant.
ls_of_directory_itself(S0, arg) ==
  LET S == Enter(S0)
      m == S.mem
      found == name_exists(S, arg, 1)
      position == found.position
      parent_out == IF strcmp(arg, PARENT) = 0
                      THEN print_elements(m, m[S.curr_dir].parent, 0) ELSE <<>>
      root_out == IF strcmp(arg, ROOT) = 0
                    THEN print_elements(m, S.root, 0) ELSE <<>>
      position_out == IF position = NULL THEN <<>>
                      ELSE IF m[position].type = U_FILE THEN m[position].name \o NL
                      ELSE print_elements(m, position, 0)
  IN IF strcmp(arg, CD) = 0 \/ strlen(arg) = 0
       THEN [S EXCEPT !.out = print_elements(m, S.curr_dir, 1), !.ret = 1]
     ELSE IF found.exists = 0 /\ ~non_error_arg(arg) THEN [S EXCEPT !.ret = 0]
     ELSE [S EXCEPT !.out = parent_out \o root_out \o position_out, !.ret = 1]

ls(S0, arg) ==
  LET S == Enter(S0)
      m == S.mem
      found == name_exists(S, arg, 1)
      position == found.position
      parent_out == IF strcmp(arg, PARENT) = 0
                      THEN print_elements(m, m[S.curr_dir].parent, 0) ELSE <<>>
      root_out == IF strcmp(arg, ROOT) = 0
                    THEN print_elements(m, S.root, 0) ELSE <<>>
      position_out == IF position = NULL THEN <<>>
                      ELSE IF m[position].type = U_FILE THEN m[position].name \o NL
                      ELSE print_elements(m, m[position].sub_dir, 0)
  IN IF strcmp(arg, CD) = 0 \/ strlen(arg) = 0
       THEN [S EXCEPT !.out = print_elements(m, S.curr_dir, 1), !.ret = 1]
     ELSE IF found.exists = 0 /\ ~non_error_arg(arg) THEN [S EXCEPT !.ret = 0]
     ELSE [S EXCEPT !.out = parent_out \o root_out \o position_out, !.ret = 1]

\* ------------------------------------------------------------ path printing

\* Mutant of pwd_helper: a '/' is printed after every directory, the last
\* included.
RECURSIVE pwd_helper_trailing_slash(_, _, _)
pwd_helper_trailing_slash(m, dir, cursor) ==
  IF m[dir].type = U_ROOT
    THEN IF dir = cursor THEN m[dir].name \o NL ELSE m[dir].name
    ELSE pwd_helper_trailing_slash(m, m[dir].parent, cursor) \o
         (IF dir # cursor THEN m[dir].name \o ROOT ELSE m[dir].name \o ROOT \o NL)

RECURSIVE pwd_helper(_, _, _)
pwd_helper(m, dir, cursor) ==
  IF m[dir].type = U_ROOT
    THEN IF dir = cursor THEN m[dir].name \o NL ELSE m[dir].name
    ELSE pwd_helper(m, m[dir].parent, cursor) \o
         (IF dir # cursor THEN m[dir].name \o ROOT ELSE m[dir].name \o NL)

\* Mutant of pwd: the walk up is made with filesystem->curr_dir itself,
\* which is left at Root.
pwd_moving_cursor(S0) ==
  LET S == Enter(S0)
  IN [S EXCEPT !.out = pwd_helper(S.mem, S.curr_dir, S.curr_dir),
               !.curr_dir = S.root]

pwd(S0) ==
  LET S == Enter(S0)
  IN [S EXCEPT !.out = pwd_helper(S.mem, S.curr_dir, S.curr_dir)]

\* ---------------------------------------------------------------- deletion

\* Mutant of free_container: free(dir->name) is left out.
free_container_keeps_name(S, dir) ==
  [S EXCEPT !.mem[dir] = IndetBlock,
            !.live = @ \ {dir},
            !.frees[dir] = @ + 1,
            !.bad_free = @ \/ dir \notin S.live]

\* free(dir->name); free(dir).  The three stores that follow (lines 525-527)
\* go into the block just freed: its content stays indeterminate.
free_container(S, dir) ==
  [S EXCEPT !.mem[dir] = IndetBlock,
            !.live = @ \ {dir},
            !.liveName = @ \ {dir},
            !.frees[dir] = @ + 1,
            !.nameFrees[dir] = @ + 1,
            !.bad_free = @ \/ dir \notin S.live \/ dir \notin S.liveName]

\* Mutant of unlink: lines 519-520 are left out, the successor's prev is
\* not set.
unlink_forward_only(m, dir) ==
  LET d == m[dir]
  IN IF d.prev # NULL
       THEN IF d.prev = d.parent /\ m[d.prev].type # U_ROOT
              THEN [m EXCEPT ![d.parent].sub_dir = d.next]
              ELSE [m EXCEPT ![d.prev].next = d.next]
       ELSE m

\* Mutant of unlink: the case of lines 512-513 is left out, a first child
\* is taken out of a list through its prev's next.
unlink_through_next_only(m, dir) ==
  LET d == m[dir]
      m1 == IF d.prev # NULL THEN [m EXCEPT ![d.prev].next = d.next] ELSE m
  IN IF d.next # NULL THEN [m1 EXCEPT ![d.next].prev = d.prev] ELSE m1

\* Lines 507-520: take dir out of its sibling list.
unlink(m, dir) ==
  LET d == m[dir]
      m1 == IF d.prev # NULL
              THEN IF d.prev = d.parent /\ m[d.prev].type # U_ROOT
                     THEN [m EXCEPT ![d.parent].sub_dir = d.next]
                     ELSE [m EXCEPT ![d.prev].next = d.next]
              ELSE m
  IN IF d.next # NULL THEN [m1 EXCEPT ![d.next].prev = d.prev] ELSE m1

\* Mutant of delete: the contents of a directory are not deleted.
RECURSIVE delete_shallow(_, _, _)
delete_shallow(S, dir, delete_all) ==
  LET S2 == IF delete_all # 0 /\ S.mem[dir].next # NULL
              THEN delete_shallow(S, S.mem[dir].next, delete_all) ELSE S
  IN free_container([S2 EXCEPT !.mem = unlink(S2.mem, dir)], dir)

RECURSIVE delete(_, _, _)
delete(S, dir, delete_all) ==
  LET S1 == IF S.mem[dir].type = U_DIR /\ S.mem[dir].sub_dir # NULL
              THEN delete(S, S.mem[dir].sub_dir, 1) ELSE S
      S2 == IF delete_all # 0 /\ S1.mem[dir].next # NULL
              THEN delete(S1, S1.mem[dir].next, delete_all) ELSE S1
  IN free_container([S2 EXCEPT !.mem = unlink(S2.mem, dir)], dir)

rm(S0, arg) ==
  LET S == Enter(S0)
      found == name_exists(S, arg, 1)
      position == found.position
  IN IF invalid_arg(arg) \/ non_error_arg(arg) \/ found.exists = 0
       THEN [S EXCEPT !.ret = 0]
     ELSE IF position # NULL THEN [delete(S, position, 0) EXCEPT !.ret = 1]
     ELSE [S EXCEPT !.ret = 0]

rmfs(S0) == delete(Enter(S0), S0.root, 1)

\* ------------------------------------------------------------ the machine

\* The variables become the fields of S; the call and the phase are noted.
Becomes(S, fn, arg, ph) ==
  /\ mem' = S.mem
  /\ live' = S.live
  /\ liveName' = S.liveName
  /\ root' = S.root
  /\ curr_dir' = S.curr_dir
  /\ ret' = S.ret
  /\ out' = S.out
  /\ frees' = S.frees
  /\ nameFrees' = S.nameFrees
  /\ bad_free' = S.bad_free
  /\ op' = [fn |-> fn, arg |-> arg]
  /\ phase' = ph
  /\ pc' = "returned"

\* The block malloc returns: the allocator is first-fit, it hands out the
\* free block of the lowest address.  No block is free: the empty set.
FreeBlocks ==
  IF Nodes \ live = {} THEN {}
  ELSE {CHOOSE b \in Nodes \ live : \A c \in Nodes \ live : b <= c}

\* touch and mkdir reach add_container_to_filesystem with this argument.
Allocates(arg) ==
  /\ name_exists(St, arg, 0).exists = 0
  /\ ~non_error_arg(arg)
  /\ ~invalid_arg(arg)

\* The state mkfs leaves, on a heap that holds nothing.
Init ==
  /\ phase = "live"
  /\ pc = "returned"
  /\ op = [fn |-> "mkfs", arg |-> <<>>]
  /\ \E blk \in {1} :
       LET S == mkfs([mem |-> [n \in Nodes |-> IndetBlock], live |-> {},
                      liveName |-> {}, root |-> NULL, curr_dir |-> NULL,
                      ret |-> 0, out |-> <<>>, frees |-> NoFrees,
                      nameFrees |-> NoFrees, bad_free |-> FALSE], blk)
       IN /\ mem = S.mem
          /\ live = S.live
          /\ liveName = S.liveName
          /\ root = S.root
          /\ curr_dir = S.curr_dir
          /\ ret = S.ret
          /\ out = S.out
          /\ frees = S.frees
          /\ nameFrees = S.nameFrees
          /\ bad_free = S.bad_free

\* No call is pending.
NoCall == [fn |-> "", arg |-> <<>>]

\* The address of a block means nothing to the program but which block it
\* is: between two calls the model renumbers the blocks, the containers
\* first, in the order a walk from Root meets them (a directory, what it
\* holds, then its next sibling), so that one tree has one layout.

\* The blocks of the chain that starts at n and of the directories in it.
RECURSIVE Walk(_, _, _)
Walk(m, n, k) ==
  IF n \notin Nodes \/ k = 0 THEN <<>>
  ELSE <<n>>
       \o (IF m[n].type = U_DIR THEN Walk(m, m[n].sub_dir, k - 1) ELSE <<>>)
       \o Walk(m, m[n].next, k - 1)

RECURSIVE Ascending(_)
Ascending(S) ==
  IF S = {} THEN <<>>
  ELSE LET x == CHOOSE y \in S : \A z \in S : y <= z
       IN <<x>> \o Ascending(S \ {x})

\* Every block once: the containers a walk from Root meets, then any other
\* allocated block, then the free blocks.
Layout ==
  LET walk == IF root \in live
                THEN <<root>> \o Walk(mem, mem[root].next, MaxNodes) ELSE <<>>
      met == {walk[i] : i \in 1..Len(walk)}
  IN walk \o Ascending(live \ met) \o Ascending(Nodes \ (live \cup met))

\* The new number of block n, NULL and indeterminate values kept.
Renumber(lay, n) ==
  IF n \in Nodes THEN CHOOSE i \in Nodes : lay[i] = n ELSE n

Renumbered(number, c) ==
  [c EXCEPT !.parent = IF @ \in Nodes THEN number[@] ELSE @,
            !.next = IF @ \in Nodes THEN number[@] ELSE @,
            !.prev = IF @ \in Nodes THEN number[@] ELSE @,
            !.sub_dir = IF @ \in Nodes THEN number[@] ELSE @]

\* The caller has taken what the call returned and printed, and is ready
\* for its next call.
Return ==
  /\ pc = "returned"
  /\ pc' = "ready"
  /\ op' = NoCall
  /\ ret' = 0
  /\ out' = <<>>
  /\ frees' = NoFrees
  /\ nameFrees' = NoFrees
  /\ LET lay == Layout
         number == [n \in Nodes |-> Renumber(lay, n)]
     IN /\ mem' = [i \in Nodes |-> Renumbered(number, mem[lay[i]])]
        /\ live' = {number[n] : n \in live}
        /\ liveName' = {number[n] : n \in liveName}
        /\ root' = number[root]
        /\ curr_dir' = number[curr_dir]
  /\ UNCHANGED <<phase, bad_free>>

\* mkfs on a filesystem that rmfs has torn down.
Mkfs ==
  /\ phase = "dead"
  /\ pc = "ready"
  /\ \E blk \in FreeBlocks : Becomes(mkfs(St, blk), "mkfs", <<>>, "live")

\* A call that needs a block is made only while the heap has one (the bound).
Touch(arg) ==
  /\ phase = "live"
  /\ pc = "ready"
  /\ IF Allocates(arg)
       THEN \E blk \in FreeBlocks :
              Becomes(touch(St, arg, blk, AllocOk), "touch", arg, "live")
       ELSE Becomes(touch(St, arg, NULL, AllocOk), "touch", arg, "live")

Mkdir(arg) ==
  /\ phase = "live"
  /\ pc = "ready"
  /\ IF Allocates(arg)
       THEN \E blk \in FreeBlocks :
              Becomes(mkdir(St, arg, blk, AllocOk), "mkdir", arg, "live")
       ELSE Becomes(mkdir(St, arg, NULL, AllocOk), "mkdir", arg, "live")

Cd(arg) ==
  /\ phase = "live"
  /\ pc = "ready"
  /\ Becomes(cd(St, arg), "cd", arg, "live")

Ls(arg) ==
  /\ phase = "live"
  /\ pc = "ready"
  /\ Becomes(ls(St, arg), "ls", arg, "live")

Pwd ==
  /\ phase = "live"
  /\ pc = "ready"
  /\ Becomes(pwd(St), "pwd", <<>>, "live")

Rm(arg) ==
  /\ phase = "live"
  /\ pc = "ready"
  /\ Becomes(rm(St, arg), "rm", arg, "live")

Rmfs ==
  /\ phase = "live"
  /\ pc = "ready"
  /\ Becomes(rmfs(St), "rmfs", <<>>, "dead")

\* A creation whose allocation fails: malloc returns NULL for the container,
\* or a block for the container and NULL for the name.  The call prints
\* "Terminating program." and returns 0; the session ends there.
TouchNoMemory(arg) ==
  /\ phase = "live"
  /\ pc = "ready"
  /\ Allocates(arg)
  /\ \/ Becomes(touch(St, arg, NULL, AllocNodeFails), "touch", arg, "oom")
     \/ \E blk \in FreeBlocks :
          Becomes(touch(St, arg, blk, AllocNameFails), "touch", arg, "oom")

MkdirNoMemory(arg) ==
  /\ phase = "live"
  /\ pc = "ready"
  /\ Allocates(arg)
  /\ \/ Becomes(mkdir(St, arg, NULL, AllocNodeFails), "mkdir", arg, "oom")
     \/ \E blk \in FreeBlocks :
          Becomes(mkdir(St, arg, blk, AllocNameFails), "mkdir", arg, "oom")

Next ==
  \/ Return
  \/ Mkfs
  \/ \E arg \in Args : Touch(arg)
  \/ \E arg \in Args : Mkdir(arg)
  \/ \E arg \in Args : Cd(arg)
  \/ \E arg \in Args : Ls(arg)
  \/ Pwd
  \/ \E arg \in Args : Rm(arg)
  \/ Rmfs

\* Every allocation after mkfs succeeds.
Spec == Init /\ [][Next]_vars

NextNoMemory ==
  \/ Next
  \/ \E arg \in Args : TouchNoMemory(arg)
  \/ \E arg \in Args : MkdirNoMemory(arg)

\* An allocation in touch or mkdir may fail.
SpecNoMemory == Init /\ [][NextNoMemory]_vars

\* ============================================================== properties

\* The blocks met by following next from n, in order (at most k of them).
RECURSIVE Chain(_, _, _)
Chain(m, n, k) ==
  IF n = NULL \/ n \notin Nodes \/ k = 0 THEN <<>>
  ELSE <<n>> \o Chain(m, m[n].next, k - 1)

\* The children list of directory d: Root's own sibling chain, or the chain
\* that starts at sub_dir.
Children(m, d) ==
  IF m[d].type = U_ROOT THEN Chain(m, m[d].next, MaxNodes)
  ELSE IF m[d].type = U_DIR THEN Chain(m, m[d].sub_dir, MaxNodes)
  ELSE <<>>

Range(seq) == {seq[i] : i \in 1..Len(seq)}

\* s is below t in byte order.
ByteLess(s, t) ==
  \E i \in 1..Len(t) :
    /\ i - 1 <= Len(s)
    /\ \A j \in 1..(i - 1) : s[j] = t[j]
    /\ (i > Len(s) \/ s[i] < t[i])

Directories == {d \in live : mem[d].type \in {U_ROOT, U_DIR}}

\* The children of the cursor named arg.
Named(m, dir, arg) == {n \in Range(Children(m, dir)) : m[n].name = arg}

\* The links of block n that the code follows.
Links(m, n) ==
  {m[n].parent, m[n].next, m[n].prev} \cup
  (IF m[n].type = U_DIR THEN {m[n].sub_dir} ELSE {})

\* No link of an allocated container points to a block that is not allocated.
NoDangling == \A n \in live : Links(mem, n) \subseteq live \cup {NULL}

\* n and the directories above it, up to Root.
RECURSIVE PathToRoot(_, _, _)
PathToRoot(m, n, k) ==
  IF n \notin Nodes \/ k = 0 THEN {}
  ELSE IF m[n].type = U_ROOT THEN {n}
  ELSE {n} \cup PathToRoot(m, m[n].parent, k - 1)

\* ---------------------------------------------------------------------- C1
\* C1: after any sequence of touch, mkdir, cd and rm, the children list of
\* every directory (Root's top-level chain included) holds allocated
\* containers whose names are strictly ascending in byte order, hence
\* without duplicates.
C1_ChildrenSorted ==
  phase = "live" =>
    \A d \in Directories :
      LET c == Children(mem, d)
      IN /\ Range(c) \subseteq live
         /\ \A i \in 1..(Len(c) - 1) : ByteLess(mem[c[i]].name, mem[c[i + 1]].name)

\* mkdir has just put "ab" between "a" and "b".
C1_Witness ==
  /\ op = [fn |-> "mkdir", arg |-> <<97, 98>>]
  /\ ret = 1
  /\ Len(Children(mem, curr_dir)) = 3

\* ---------------------------------------------------------------------- C2
\* C2: while the filesystem exists, curr_dir is an allocated container of
\* type Root or Directory, and so is every directory above it: the last
\* call freed none of them.
C2_CursorLive ==
  phase = "live" =>
    /\ curr_dir \in live
    /\ mem[curr_dir].type \in {U_ROOT, U_DIR}
    /\ root \in PathToRoot(mem, curr_dir, MaxNodes)
    /\ \A n \in PathToRoot(mem, curr_dir, MaxNodes) :
         n \in live /\ frees[n] = 0 /\ mem[n].type \in {U_ROOT, U_DIR}

\* rm has just removed a directory and its child below a nested cursor.
C2_Witness ==
  /\ op.fn = "rm"
  /\ ret = 1
  /\ curr_dir # root
  /\ Cardinality({n \in Nodes : frees[n] = 1}) = 2

\* ---------------------------------------------------------------------- C3
\* C3: a touch, mkdir, cd or rm that returns 0 leaves the heap, the set of
\* containers and the cursor as they were, and no link points to a freed
\* block.
C3_FailureChangesNothing ==
  [][(phase = "live" /\ op'.fn \in {"touch", "mkdir", "cd", "rm"} /\ ret' = 0) =>
       /\ mem' = mem
       /\ live' = live
       /\ liveName' = liveName
       /\ root' = root
       /\ curr_dir' = curr_dir
       /\ NoDangling']_vars

\* ---------------------------------------------------------------------- C4
\* t and everything below it.
RECURSIVE Subtree(_, _, _)
Subtree(m, t, k) ==
  IF k = 0 THEN {t}
  ELSE {t} \cup UNION {Subtree(m, c, k - 1) : c \in Range(Children(m, t))}

Reachable(m, r) == Subtree(m, r, MaxNodes)

\* The lines of a printed text, without their '\n'.
RECURSIVE LinesFrom(_, _, _)
LinesFrom(bytes, i, line) ==
  IF i > Len(bytes) THEN (IF line = <<>> THEN {} ELSE {line})
  ELSE IF bytes[i] = 10 THEN {line} \cup LinesFrom(bytes, i + 1, <<>>)
  ELSE LinesFrom(bytes, i + 1, Append(line, bytes[i]))

Lines(bytes) == LinesFrom(bytes, 1, <<>>)

\* C4: rm of a Directory child of the cursor returns 1 and removes it with
\* every container below it: none of them stays allocated or reachable from
\* Root, the name is no longer found among the cursor's children, and ls of
\* the cursor no longer prints it.
C4_RmRemovesSubtree ==
  [][\A t \in Nodes :
       (/\ phase = "live"
        /\ op'.fn = "rm"
        /\ t \in Named(mem, curr_dir, op'.arg)
        /\ mem[t].type = U_DIR) =>
         /\ ret' = 1
         /\ Subtree(mem, t, MaxNodes) \cap live' = {}
         /\ Subtree(mem, t, MaxNodes) \cap Reachable(mem', root') = {}
         /\ curr_dir' = curr_dir
         /\ Named(mem', curr_dir', op'.arg) = {}
         /\ name_exists(St', op'.arg, 1) = [exists |-> 0, position |-> NULL]
         /\ Lines(ls(St', CD).out) \cap {op'.arg, op'.arg \o ROOT} = {}]_vars

\* rm at Root has just freed a directory and two containers below it.
C4_Witness ==
  /\ op.fn = "rm"
  /\ ret = 1
  /\ curr_dir = root
  /\ Cardinality({n \in Nodes : frees[n] = 1}) = 3

\* ---------------------------------------------------------------------- C5
\* The child of the cursor that rm(arg) deletes, if any.
RmTarget(arg) == IF arg \in PlainNames THEN Named(mem, curr_dir, arg) ELSE {}

\* The containers rm(arg) has to free.
RmFreed(arg) == UNION {Subtree(mem, t, MaxNodes) : t \in RmTarget(arg)}

Once(S) == [n \in Nodes |-> IF n \in S THEN 1 ELSE 0]

\* C5: rm frees each container of the target's subtree, and its name, once
\* and frees nothing else; rmfs frees every allocated container and its
\* name once and leaves nothing allocated; touch, mkdir, cd, ls and pwd free
\* nothing; no free is ever given a block that is not allocated.
C5_FreedExactlyOnce ==
  [][phase = "live" =>
       /\ ~bad_free'
       /\ live' = liveName'
       /\ op'.fn = "rm" =>
            /\ frees' = Once(RmFreed(op'.arg))
            /\ nameFrees' = Once(RmFreed(op'.arg))
            /\ live' = live \ RmFreed(op'.arg)
       /\ op'.fn = "rmfs" =>
            /\ frees' = Once(live)
            /\ nameFrees' = Once(liveName)
            /\ live' = {}
            /\ liveName' = {}
       /\ op'.fn \in {"touch", "mkdir", "cd", "ls", "pwd"} =>
            /\ frees' = NoFrees
            /\ nameFrees' = NoFrees
            /\ live \subseteq live']_vars

\* rmfs has just freed a heap that was full.
C5_Witness ==
  /\ op.fn = "rmfs"
  /\ phase = "dead"
  /\ \A n \in Nodes : frees[n] = 1 /\ nameFrees[n] = 1

\* ---------------------------------------------------------------------- C6
HasSlash(arg) == \E i \in 1..Len(arg) : arg[i] = 47

\* C6 as claimed: touch or mkdir of a name that is empty or holds a '/'
\* returns 0 and adds no container.
C6_InvalidNameFails ==
  [][(/\ phase = "live"
      /\ op'.fn \in {"touch", "mkdir"}
      /\ (Len(op'.arg) = 0 \/ HasSlash(op'.arg))) =>
        /\ ret' = 0
        /\ live' = live
        /\ mem' = mem]_vars

\* C6 as amended: touch or mkdir of a name that is empty or holds a '/'
\* adds no container; it returns 0, except that touch of the name "/"
\* itself returns 1.
C6_InvalidNameAddsNothing ==
  [][(/\ phase = "live"
      /\ op'.fn \in {"touch", "mkdir"}
      /\ (Len(op'.arg) = 0 \/ HasSlash(op'.arg))) =>
        /\ ret' = (IF op'.fn = "touch" /\ op'.arg = ROOT THEN 1 ELSE 0)
        /\ live' = live
        /\ mem' = mem]_vars

\* touch("a/") has just failed in a directory that is not empty.
C6_Witness ==
  /\ op = [fn |-> "touch", arg |-> <<97, 47>>]
  /\ ret = 0
  /\ Len(Children(mem, curr_dir)) > 0

\* ---------------------------------------------------------------------- C7
\* What ls prints for a list of containers.
RECURSIVE Listing(_, _, _)
Listing(m, c, i) ==
  IF i > Len(c) THEN <<>>
  ELSE m[c[i]].name \o (IF m[c[i]].type = U_DIR THEN ROOT ELSE <<>>) \o NL
       \o Listing(m, c, i + 1)

\* C7: ls("..") returns 1 and prints the children of the cursor's parent,
\* in their order, a '/' after each directory, wherever the cursor is.
C7_LsParent ==
  [][(phase = "live" /\ op' = [fn |-> "ls", arg |-> PARENT]) =>
       /\ ret' = 1
       /\ out' = Listing(mem, Children(mem, mem[curr_dir].parent), 1)]_vars

\* ---------------------------------------------------------------------- C8
\* C8: touch of a name that a child of the cursor already has (a File, as
\* after a first touch, or a Directory) returns 1 and changes nothing:
\* exactly one child has that name afterwards.
C8_TouchIdempotent ==
  [][(phase = "live" /\ op'.fn = "touch" /\ Named(mem, curr_dir, op'.arg) # {}) =>
       /\ ret' = 1
       /\ mem' = mem
       /\ live' = live
       /\ curr_dir' = curr_dir
       /\ Cardinality(Named(mem', curr_dir', op'.arg)) = 1
       /\ Len(Children(mem', curr_dir')) = Len(Children(mem, curr_dir))]_vars

\* touch has just returned 1 for the name of a Directory that is the second
\* child of the cursor.
C8_Witness ==
  /\ op.fn = "touch"
  /\ ret = 1
  /\ Len(Children(mem, curr_dir)) >= 2
  /\ \E n \in Named(mem, curr_dir, op.arg) :
       mem[n].type = U_DIR /\ n # Children(mem, curr_dir)[1]

\* ---------------------------------------------------------------------- C9
\* C9: mkdir of a name that a child of the cursor already has, File or
\* Directory, returns 0 and changes neither the tree nor the cursor.
C9_MkdirExistingFails ==
  [][(phase = "live" /\ op'.fn = "mkdir" /\ Named(mem, curr_dir, op'.arg) # {}) =>
       /\ ret' = 0
       /\ mem' = mem
       /\ live' = live
       /\ root' = root
       /\ curr_dir' = curr_dir]_vars

\* mkdir has just returned 0 for the name of a File of the cursor.
C9_Witness ==
  /\ op.fn = "mkdir"
  /\ ret = 0
  /\ \E n \in Named(mem, curr_dir, op.arg) : mem[n].type = U_FILE

\* --------------------------------------------------------------------- C10
\* C10: for every Directory child d of the cursor, cd(d) returns 1 and
\* moves the cursor to d, and cd("..") after it returns 1 and moves the
\* cursor back, the tree unchanged.
C10_CdRoundTrip ==
  phase = "live" =>
    \A d \in Range(Children(mem, curr_dir)) :
      mem[d].type = U_DIR =>
        LET S1 == cd(St, mem[d].name)
            S2 == cd(S1, PARENT)
        IN /\ S1.ret = 1
           /\ S1.curr_dir = d
           /\ S2.ret = 1
           /\ S2.curr_dir = curr_dir
           /\ S2.mem = mem
           /\ S2.live = live
           /\ S2.root = root

\* cd("..") has just come back to a nested directory from a directory that
\* is not its first child.
C10_Witness ==
  /\ op = [fn |-> "cd", arg |-> PARENT]
  /\ ret = 1
  /\ curr_dir # root
  /\ \E d \in Range(Children(mem, curr_dir)) : mem[d].type = U_DIR

\* --------------------------------------------------------------------- C11
\* The reserved tokens ".", ".." and "/".
Reserved == {CD, PARENT, ROOT}

\* C11: cd of a name that is neither empty nor reserved changes nothing in
\* the tree; when no Directory child of the cursor has that name (no child
\* has it, or a File has it) it returns 0 and the cursor stays; when a
\* Directory child has it, it returns 1 and the cursor is that child.
C11_CdByName ==
  [][(/\ phase = "live"
      /\ op'.fn = "cd"
      /\ Len(op'.arg) > 0
      /\ op'.arg \notin Reserved) =>
        LET dirs == {n \in Named(mem, curr_dir, op'.arg) : mem[n].type = U_DIR}
        IN /\ mem' = mem
           /\ live' = live
           /\ root' = root
           /\ IF dirs = {} THEN ret' = 0 /\ curr_dir' = curr_dir
                           ELSE ret' = 1 /\ curr_dir' \in dirs]_vars

\* cd has just returned 0 for the name of a File, in a nested directory
\* that also holds a Directory.
C11_Witness ==
  /\ op.fn = "cd"
  /\ ret = 0
  /\ curr_dir # root
  /\ \E n \in Named(mem, curr_dir, op.arg) : mem[n].type = U_FILE
  /\ \E d \in Range(Children(mem, curr_dir)) : mem[d].type = U_DIR

\* --------------------------------------------------------------------- C12
\* The directories from Root (left out) down to n.
RECURSIVE PathDown(_, _, _)
PathDown(m, n, k) ==
  IF n \notin Nodes \/ k = 0 \/ m[n].type = U_ROOT THEN <<>>
  ELSE Append(PathDown(m, m[n].parent, k - 1), n)

\* The names of the containers of path from its i-th on, a '/' between two.
RECURSIVE Joined(_, _, _)
Joined(m, path, i) ==
  IF i > Len(path) THEN <<>>
  ELSE m[path[i]].name \o (IF i < Len(path) THEN ROOT ELSE <<>>)
       \o Joined(m, path, i + 1)

\* C12: pwd prints one line, the absolute path of the cursor: "/" at Root,
\* otherwise "/" and the names of the directories from Root down to the
\* cursor with one '/' between two and none at the end.
C12_PwdPath ==
  [][(phase = "live" /\ op'.fn = "pwd") =>
       /\ out' = ROOT \o Joined(mem, PathDown(mem, curr_dir, MaxNodes), 1) \o NL
       /\ Cardinality({i \in 1..Len(out') : out'[i] = 10}) = 1
       /\ out'[Len(out')] = 10
       /\ Len(out') > 2 => out'[Len(out') - 1] # 47]_vars

\* pwd has just printed a path of three directories.
C12_Witness ==
  /\ op.fn = "pwd"
  /\ Len(PathDown(mem, curr_dir, MaxNodes)) = 3
  /\ Cardinality({i \in 1..Len(out) : out[i] = 47}) = 3

\* --------------------------------------------------------------------- C13
\* The number of lines of a printed text.
NewLines(bytes) == Cardinality({i \in 1..Len(bytes) : bytes[i] = 10})

\* The names of the containers of c are strictly ascending.
AscendingNames(m, c) ==
  \A i \in 1..(Len(c) - 1) : ByteLess(m[c[i]].name, m[c[i + 1]].name)

\* C13: ls("") and ls(".") return 1 and print the children of the cursor,
\* Root or nested: one line for each child, in ascending order of the
\* names, a '/' after the name of a Directory and none after a File's;
\* nothing for an empty directory.
C13_LsCursor ==
  [][(phase = "live" /\ op'.fn = "ls" /\ op'.arg \in {<<>>, CD}) =>
       LET c == Children(mem, curr_dir)
       IN /\ ret' = 1
          /\ out' = Listing(mem, c, 1)
          /\ NewLines(out') = Len(c)
          /\ AscendingNames(mem, c)
          /\ Len(c) = 0 => out' = <<>>]_vars

\* ls(".") has just printed a Directory and a File of a nested cursor.
C13_Witness ==
  /\ op = [fn |-> "ls", arg |-> CD]
  /\ ret = 1
  /\ curr_dir # root
  /\ NewLines(out) = 2
  /\ \E d, f \in Range(Children(mem, curr_dir)) :
       mem[d].type = U_DIR /\ mem[f].type = U_FILE

\* --------------------------------------------------------------------- C14
\* C14: ls of a name that is neither empty nor reserved: when a File child
\* of the cursor has the name it prints the name on a line; when a
\* Directory child has it, it prints that directory's children in their
\* ascending order and not the directory's name, nothing if it is empty;
\* when no child has it, it returns 0 and prints nothing.
C14_LsByName ==
  [][(/\ phase = "live"
      /\ op'.fn = "ls"
      /\ Len(op'.arg) > 0
      /\ op'.arg \notin Reserved) =>
        LET found == Named(mem, curr_dir, op'.arg)
        IN /\ found = {} => (ret' = 0 /\ out' = <<>>)
           /\ \A n \in found :
                /\ ret' = 1
                /\ mem[n].type = U_FILE => out' = op'.arg \o NL
                /\ mem[n].type = U_DIR =>
                     /\ out' = Listing(mem, Children(mem, n), 1)
                     /\ AscendingNames(mem, Children(mem, n))
                     /\ Children(mem, n) = <<>> => out' = <<>>]_vars

\* ls has just printed the two children of a Directory found by its name.
C14_Witness ==
  /\ op.fn = "ls"
  /\ ret = 1
  /\ \E n \in Named(mem, curr_dir, op.arg) :
       /\ mem[n].type = U_DIR
       /\ Len(Children(mem, n)) = 2
  /\ NewLines(out) = 2

\* --------------------------------------------------------------------- C15
\* The place of container t in the list c (0 when it is not in it).
IndexOf(c, t) ==
  IF t \in Range(c) THEN CHOOSE i \in 1..Len(c) : c[i] = t ELSE 0

\* The list c without container t.
Without(c, t) == SelectSeq(c, LAMBDA n : n # t)

\* C15: rm of a child t of the cursor returns 1 and removes t and what is
\* below t, nothing else: every other container stays allocated and
\* reachable from Root with its name, type and parent; the cursor's
\* children are the former ones without t, in their order, and every other
\* directory keeps its children; the next of t's predecessor (Root's next
\* for the first top-level entry, the directory's sub_dir for the first
\* child of a directory) is t's successor, and the successor's prev is t's
\* predecessor (Root or the directory for the first one).
C15_RmRemovesOnlyTarget ==
  [][\A t \in Nodes :
       (/\ phase = "live"
        /\ op'.fn = "rm"
        /\ t \in Named(mem, curr_dir, op'.arg)) =>
         LET gone == Subtree(mem, t, MaxNodes)
             c == Children(mem, curr_dir)
             i == IndexOf(c, t)
             pred == IF i > 1 THEN c[i - 1] ELSE curr_dir
             succ == IF i < Len(c) THEN c[i + 1] ELSE NULL
         IN /\ ret' = 1
            /\ root' = root
            /\ curr_dir' = curr_dir
            /\ live' = live \ gone
            /\ \A n \in live \ gone :
                 /\ mem'[n].name = mem[n].name
                 /\ mem'[n].type = mem[n].type
                 /\ mem'[n].parent = mem[n].parent
                 /\ n \in Reachable(mem', root')
            /\ Children(mem', curr_dir) = Without(c, t)
            /\ \A d \in Directories \ (gone \cup {curr_dir}) :
                 Children(mem', d) = Children(mem, d)
            /\ IF i = 1 /\ mem[curr_dir].type = U_DIR
                 THEN mem'[curr_dir].sub_dir = succ
                 ELSE mem'[pred].next = succ
            /\ succ # NULL => mem'[succ].prev = pred]_vars

\* rm has just removed the first child of a nested directory; the sibling
\* that came after it (the blocks are numbered in the order of the list) is
\* the first child now.
C15_Witness ==
  /\ op.fn = "rm"
  /\ ret = 1
  /\ curr_dir # root
  /\ \E t \in Nodes : frees[t] = 1 /\ mem[curr_dir].sub_dir > t
  /\ mem[mem[curr_dir].sub_dir].prev = curr_dir
  /\ Len(Children(mem, curr_dir)) = 1
  /\ mem[mem[curr_dir].sub_dir].prev = curr_dir

\* --------------------------------------------------------------------- C16
\* C16: with ".", ".." or "/" as the name, touch returns 1, mkdir returns 0
\* and rm returns 0; none of them creates or removes a container or changes
\* a link or the cursor.
C16_ReservedNames ==
  [][(/\ phase = "live"
      /\ op'.fn \in {"touch", "mkdir", "rm"}
      /\ op'.arg \in Reserved) =>
        /\ ret' = (IF op'.fn = "touch" THEN 1 ELSE 0)
        /\ mem' = mem
        /\ live' = live
        /\ liveName' = liveName
        /\ frees' = NoFrees
        /\ root' = root
        /\ curr_dir' = curr_dir]_vars

\* touch("..") has just returned 1 in a nested directory that holds a
\* container.
C16_Witness ==
  /\ op = [fn |-> "touch", arg |-> PARENT]
  /\ ret = 1
  /\ curr_dir # root
  /\ Len(Children(mem, curr_dir)) > 0

\* --------------------------------------------------------------------- C17
\* The directories whose children list holds container n.
Holders(m, n) == {d \in Directories : n \in Range(Children(m, d))}

\* C17: cd("") and cd(".") return 1 and leave the cursor; cd("..") returns
\* 1 and moves the cursor to the directory that holds it, or leaves it at
\* Root; cd("/") returns 1 and moves the cursor to Root; the tree is as it
\* was.
C17_CdReserved ==
  [][(phase = "live" /\ op'.fn = "cd" /\ op'.arg \in Reserved \cup {<<>>}) =>
       /\ ret' = 1
       /\ mem' = mem
       /\ live' = live
       /\ root' = root
       /\ op'.arg \in {<<>>, CD} => curr_dir' = curr_dir
       /\ op'.arg = PARENT =>
            IF curr_dir = root THEN curr_dir' = root
            ELSE Holders(mem, curr_dir) = {curr_dir'}
       /\ op'.arg = ROOT => curr_dir' = root]_vars

\* cd("..") has just moved the cursor from the third level to the second.
C17_Witness ==
  /\ op = [fn |-> "cd", arg |-> PARENT]
  /\ ret = 1
  /\ curr_dir # root
  /\ mem[curr_dir].parent # root
  /\ mem[curr_dir].sub_dir # NULL

C19_SiblingLinks ==
  phase # "dead" =>
    /\ mem[root].prev = NULL
    /\ \A n \in live :
         mem[n].next # NULL => mem[n].next \in live /\ mem[mem[n].next].prev = n
    /\ \A d \in Directories \ {root} :
         mem[d].sub_dir # NULL =>
           mem[d].sub_dir \in live /\ mem[mem[d].sub_dir].prev = d

\* --------------------------------------------------------------------- C20
\* C20: ls, with any argument, and pwd leave the heap, the set of
\* containers, Root and the cursor as they were and free nothing; and in
\* every state of a filesystem that exists, following parent from the
\* cursor reaches Root within as many steps as there are containers, so
\* that pwd ends.
C20_LsPwdReadOnly ==
  /\ [](phase # "dead" => root \in PathToRoot(mem, curr_dir, Cardinality(live)))
  /\ [][(phase = "live" /\ op'.fn \in {"ls", "pwd"}) =>
          /\ mem' = mem
          /\ live' = live
          /\ liveName' = liveName
          /\ root' = root
          /\ curr_dir' = curr_dir
          /\ frees' = NoFrees
          /\ nameFrees' = NoFrees]_vars

\* ls has just printed the name of a File of a cursor two levels down.
C20_Witness ==
  /\ op.fn = "ls"
  /\ op.arg \in PlainNames
  /\ out # <<>>
  /\ curr_dir # root
  /\ mem[curr_dir].parent # root
  /\ \E n \in Named(mem, curr_dir, op.arg) : mem[n].type = U_FILE

====
